---- MODULE Spec2Model ----
(***************************************************************************)
(* Circuit breaker of the analytics server (src/unnamed/part_003, class    *)
(* CircuitBreaker, lines 563-708).                                         *)
(*                                                                         *)
(* Time is Date.now() in milliseconds.  The single-threaded event loop is  *)
(* modelled by one action per synchronous run: the synchronous prefix of   *)
(* execute (admission check, withTimeout's executor), the settling of the  *)
(* wrapped operation (the .then/.catch callbacks), the firing of the       *)
(* timeout timer, and the continuation of execute after its await          *)
(* (onSuccess / onFailure and the return or rethrow).  execute is called   *)
(* by callExternalModelApi (lines 698-708), its one call site: the         *)
(* continuation of that function after its await is one more run.          *)
(*                                                                         *)
(* Scheduling.  A continuation queued as a microtask (execute resuming     *)
(* after its await, the caller resuming after execute) runs before the     *)
(* event loop takes its next task, so nothing else is interleaved with it. *)
(* A timer fires at its deadline: the clock does not pass the deadline of  *)
(* a pending timer; at the deadline the timer and the operation race.      *)
(*                                                                         *)
(* What a returned call leaves behind (the operation of a timed out call,  *)
(* the timer of a call whose fn threw synchronously) is kept as two flags, *)
(* orphanOps and orphanTimers, "at least one is pending".                  *)
(*                                                                         *)
(* The cache (src/server/cache.ts, class InMemoryCache) shares the clock.   *)
(* Its methods are synchronous: each is one action, and returned holds what *)
(* the method called last returned, until the clock advances.  The sweep    *)
(* (setInterval in the constructor) may run at any time while its timer is  *)
(* armed.  Keys and patterns are sequences of characters; the patterns are  *)
(* the regular expressions "^" literal (anchored), literal (found anywhere  *)
(* in the key) and an unbalanced "(" (a syntax error).                      *)
(*                                                                         *)
(* failRun, consec, probes, forced and probing are history variables: they *)
(* observe the calls and are read by the properties only.  unswept is one  *)
(* more: the Map of a cache that receives the same method calls and is     *)
(* never swept.                                                            *)
(***************************************************************************)
EXTENDS Integers, FiniteSets, Sequences, TLC

\* ---------------------------------------------------------------- bounds
NumCallers == 2            \* overlapping callers of execute
MaxTime == 7100            \* the clock stops advancing here
StartTime == 1000          \* Date.now() when the breaker is constructed
MaxFailureThreshold == 3    \* failureThreshold is 1 or this
MaxSuccessThreshold == 2    \* successThreshold is 1 or this
NumKeys == 2                \* cache keys in use
MaxSetTime == 2000          \* no cache entry is set after this time

\* ------------------------------------------------------ program constants
DefaultFailureThreshold == 5
DefaultSuccessThreshold == 2
DefaultTimeout == 30000
DefaultResetTimeout == 60000
TestTimeout == 1000
TestResetTimeout == 5000
TestAdvance == 5100
DefaultCleanupIntervalMs == 60000
DefaultTtlSeconds == 300
TestTtlSeconds == 1

Callers == 1..NumCallers
Null == -1                                   \* lastFailureTime: null
Values == {"ok"}                             \* what an operation resolves with
Errors == {"e1", "e2"}                       \* what an operation fails with
Fallbacks == {"fb"}                          \* the fallback of a call
OpenError == "Circuit breaker is OPEN - service unavailable"
TimeoutError == "Circuit breaker timeout"
TickSteps == {TestTimeout, TestAdvance}      \* clock advances

VARIABLES
  options,        \* this.options
  stats,          \* this.stats
  now,            \* Date.now()
  calls,          \* per caller: the execute call it has in progress
  orphanOps,      \* some operation is still pending whose call has returned
  orphanTimers,   \* some timer is still pending whose call has returned
  failRun,        \* calls made one after another since construction, all
                  \* of them failed by their operation: how many; else -1
  consec,         \* failures counted since the last counted success
  probes,         \* calls made one after another since the breaker tripped
                  \* by failRun and TestAdvance ms passed, all of them
                  \* successful: how many (up to two); else -1
  forced,         \* the last manual override, while its effect lasts:
                  \* kind "open" (forceOpen at time at, no call admitted
                  \* since), "probe" (the call admitted after it awaits),
                  \* "close" (forceClose, no call and no bookkeeping since;
                  \* at: the time of the forceOpen it undid, if any),
                  \* "admit" (the call made next awaits); else "none"
  cache,          \* this.cache: the entries of the Map in insertion order
  cleanupInterval,  \* this.cleanupInterval: the period of the armed sweep
                  \* timer, or Null
  returned,       \* the cache method called last and what it returned
  unswept,        \* the Map after the same calls and no sweep
  probing,        \* callers whose call was admitted in the HALF_OPEN period
                  \* that is running
  recovered       \* the dependency has recovered for good (environment)

vars == <<options, stats, now, calls, orphanOps, orphanTimers,
          failRun, consec, probes, forced, cache, cleanupInterval, returned,
          unswept, probing, recovered>>

breakerVars == <<options, stats, calls, orphanOps, orphanTimers,
                 failRun, consec, probes, forced, probing,
                 recovered>>

NotForced == [kind |-> "none", at |-> Null]

\* ------------------------------------------------------------ constructor
\* options.x || d
OrDefault(x, d) == IF x = 0 THEN d ELSE x

Constructor(ft, st, to, rt) ==
  [failureThreshold |-> OrDefault(ft, DefaultFailureThreshold),
   successThreshold |-> OrDefault(st, DefaultSuccessThreshold),
   timeout          |-> OrDefault(to, DefaultTimeout),
   resetTimeout     |-> OrDefault(rt, DefaultResetTimeout)]

\* the stats object of the constructor and of reset()
reset == [failures |-> 0, successes |-> 0, lastFailureTime |-> Null,
          state |-> "CLOSED"]

\* ------------------------------------------------------- private methods
\* mutant: a cooldown that has begun never ends
shouldAttemptReset_never(s, t, o) ==
  s.lastFailureTime = Null \/ s.lastFailureTime = 0

\* mutants: the cooldown measured against the call timeout; > for >=
shouldAttemptReset_timeout(s, t, o) ==
  IF s.lastFailureTime = Null \/ s.lastFailureTime = 0
  THEN TRUE
  ELSE t - s.lastFailureTime >= o.timeout

shouldAttemptReset_gt(s, t, o) ==
  IF s.lastFailureTime = Null \/ s.lastFailureTime = 0
  THEN TRUE
  ELSE t - s.lastFailureTime > o.resetTimeout

shouldAttemptReset(s, t, o) ==
  IF s.lastFailureTime = Null \/ s.lastFailureTime = 0
  THEN TRUE
  ELSE t - s.lastFailureTime >= o.resetTimeout

\* mutants: > for >= in the close test; CLOSED success keeps failures
onSuccess_gt(s, o) ==
  IF s.state = "HALF_OPEN"
  THEN IF s.successes + 1 > o.successThreshold
       THEN reset
       ELSE [s EXCEPT !.successes = s.successes + 1]
  ELSE [s EXCEPT !.failures = 0]

onSuccess_keep(s, o) ==
  IF s.state = "HALF_OPEN"
  THEN IF s.successes + 1 >= o.successThreshold
       THEN reset
       ELSE [s EXCEPT !.successes = s.successes + 1]
  ELSE s

\* mutant: a success closes the circuit from OPEN as well
onSuccess_fromOpen(s, o) ==
  IF s.state \in {"HALF_OPEN", "OPEN"}
  THEN IF s.successes + 1 >= o.successThreshold
       THEN reset
       ELSE [s EXCEPT !.successes = s.successes + 1]
  ELSE [s EXCEPT !.failures = 0]

onSuccess(s, o) ==
  IF s.state = "HALF_OPEN"
  THEN IF s.successes + 1 >= o.successThreshold
       THEN reset
       ELSE [s EXCEPT !.successes = s.successes + 1]
  ELSE [s EXCEPT !.failures = 0]

\* mutant: a failure at the threshold leaves the circuit closed
onFailure_late(s, t, o) ==
  LET s1 == [s EXCEPT !.failures = s.failures + 1, !.lastFailureTime = t]
  IN IF s1.state = "HALF_OPEN"
     THEN [s1 EXCEPT !.state = "OPEN", !.successes = 0]
     ELSE IF s1.failures >= o.failureThreshold + 1
          THEN [s1 EXCEPT !.state = "OPEN"]
          ELSE s1

\* mutants: > for >= in the trip test; no HALF_OPEN branch
onFailure_noHalfOpen(s, t, o) ==
  LET s1 == [s EXCEPT !.failures = s.failures + 1, !.lastFailureTime = t]
  IN IF s1.failures >= o.failureThreshold
     THEN [s1 EXCEPT !.state = "OPEN"]
     ELSE s1

onFailure_gt(s, t, o) ==
  LET s1 == [s EXCEPT !.failures = s.failures + 1, !.lastFailureTime = t]
  IN IF s1.state = "HALF_OPEN"
     THEN [s1 EXCEPT !.state = "OPEN", !.successes = 0]
     ELSE IF s1.failures > o.failureThreshold
          THEN [s1 EXCEPT !.state = "OPEN"]
          ELSE s1

onFailure(s, t, o) ==
  LET s1 == [s EXCEPT !.failures = s.failures + 1, !.lastFailureTime = t]
  IN IF s1.state = "HALF_OPEN"
     THEN [s1 EXCEPT !.state = "OPEN", !.successes = 0]
     ELSE IF s1.failures >= o.failureThreshold
          THEN [s1 EXCEPT !.state = "OPEN"]
          ELSE s1

\* the admission check at the head of execute: TRUE when the call throws
isRejected(s, t, o) == s.state = "OPEN" /\ ~shouldAttemptReset(s, t, o)

\* stats after the admission check of an admitted call
admit(s, t, o) ==
  IF s.state = "OPEN" /\ shouldAttemptReset(s, t, o)
  THEN [s EXCEPT !.state = "HALF_OPEN"]
  ELSE s

\* resolve / reject of the promise made by withTimeout: the first one wins
SettlePromise(p, outcome) == IF p = "pending" THEN outcome ELSE p

\* ------------------------------------------------------------------ calls
\* pc: "idle" before the caller's first call, "awaiting" at the await of
\* execute, "done" once execute has returned or thrown (result), "resolved"
\* once callExternalModelApi has returned (out).
NoStats == [failures |-> 0, successes |-> 0, lastFailureTime |-> Null,
            state |-> "none"]

\* pre: this.stats as execute found it when it last read it before returning
IdleCall ==
  [pc |-> "idle", promise |-> "none", timer |-> FALSE, deadline |-> 0,
   op |-> "none", opOutcome |-> "none", result |-> "none",
   updates |-> 0, invoked |-> 0, pre |-> NoStats,
   fallback |-> "none", out |-> "none"]

\* execute throws before its try block
rejectedCall(s) ==
  [IdleCall EXCEPT !.pc = "done", !.result = OpenError, !.pre = s]

\* mutant: no timer is armed
withTimeout_noTimer(t, o, b) ==
  [pc |-> "awaiting",
   promise |-> IF b = "async" THEN "pending" ELSE b,
   timer |-> FALSE, deadline |-> t + o.timeout,
   op |-> IF b = "async" THEN "pending" ELSE "settled",
   opOutcome |-> IF b = "async" THEN "none" ELSE b,
   result |-> "none", updates |-> 0, invoked |-> 1, pre |-> NoStats,
   fallback |-> "none", out |-> "none"]

\* withTimeout's executor: arm the timer, then call fn().  b = "async" when
\* fn returns a pending promise, b \in Errors when fn throws synchronously.
withTimeout(t, o, b) ==
  [pc |-> "awaiting",
   promise |-> IF b = "async" THEN "pending" ELSE b,
   timer |-> TRUE, deadline |-> t + o.timeout,
   op |-> IF b = "async" THEN "pending" ELSE "settled",
   opOutcome |-> IF b = "async" THEN "none" ELSE b,
   result |-> "none", updates |-> 0, invoked |-> 1, pre |-> NoStats,
   fallback |-> "none", out |-> "none"]

\* a call whose continuation (microtask) is queued: the promise awaited by
\* execute has settled, or execute has returned and callExternalModelApi
\* resumes, or that has returned and its caller resumes
Queued(c) ==
  \/ calls[c].pc = "awaiting" /\ calls[c].promise # "pending"
  \/ calls[c].pc = "done"
  \/ calls[c].pc = "resolved"

\* Microtasks run to completion before the event loop takes the next task
\* (a timer, an I/O callback, a request handler calling the breaker).
LoopIdle == \A c \in Callers : ~Queued(c)

InFlight == {c \in Callers : calls[c].pc = "awaiting"}

\* probing after a step of the breaker: while HALF_OPEN lasts, the callers
\* whose call was admitted in it (the one that ended the cooldown included)
\* and has not been returned yet
ProbingUpdate ==
  probing' = IF stats'.state = "HALF_OPEN"
             THEN {c \in Callers : /\ calls'[c].pc # "idle"
                                   /\ c \in probing \/ calls[c].pc = "idle"}
             ELSE {}

\* ------------------------------------------------------------------ cache
\* keys, as sequences of characters
AllKeys == << <<"a", "b">>, <<"b">>, <<"a">>, <<"b", "a">> >>
Keys == {AllKeys[i] : i \in 1..NumKeys}

JsNull == "null"                             \* null
Data == {"v", JsNull}                        \* what is stored
Undefined == 0                               \* an omitted ttlSeconds
Ttls == {TestTtlSeconds}                     \* the ttlSeconds argument
SyntaxError == "SyntaxError"                 \* thrown by new RegExp
Patterns == {<<"^", "a">>, <<"b">>, <<"(">>}

NoCall == [op |-> "none", key |-> <<>>, args |-> <<>>, value |-> "none",
           threw |-> FALSE]

\* a call of method op with first argument k and further arguments args that
\* returned v / that threw e
Returns(op, k, args, v) ==
  [op |-> op, key |-> k, args |-> args, value |-> v, threw |-> FALSE]

Throws(op, k, args, e) ==
  [op |-> op, key |-> k, args |-> args, value |-> e, threw |-> TRUE]

\* Map: has, get, set (an existing key keeps its place), delete, keys
MapHas(m, k) == \E i \in DOMAIN m : m[i].key = k

MapGet(m, k) == m[CHOOSE i \in DOMAIN m : m[i].key = k]

MapSet(m, k, e) ==
  IF MapHas(m, k)
  THEN [i \in DOMAIN m |-> IF m[i].key = k THEN e ELSE m[i]]
  ELSE Append(m, e)

MapDelete(m, k) == SelectSeq(m, LAMBDA e : e.key # k)

MapKeys(m) == [i \in DOMAIN m |-> m[i].key]

\* new RegExp(p) succeeds
RegExpOk(p) == \A i \in DOMAIN p : p[i] # "("

\* new RegExp(p).test(k)
RegExpTest(p, k) ==
  LET anchored == p # <<>> /\ Head(p) = "^"
      lit == IF anchored THEN Tail(p) ELSE p
      At(i) == /\ i + Len(lit) <= Len(k)
               /\ SubSeq(k, i + 1, i + Len(lit)) = lit
  IN IF anchored THEN At(0) ELSE \E i \in 0..Len(k) : At(i)

\* Each method as a function of the Map m and the time t: the Map it leaves
\* and the value it returns.
\* mutant: an existing entry keeps its expiry
cacheSet_keepExpiry(m, t, k, v, ttl) ==
  LET ttlSeconds == IF ttl = Undefined THEN DefaultTtlSeconds ELSE ttl
      expiresAt == IF MapHas(m, k) THEN MapGet(m, k).expiresAt
                   ELSE t + ttlSeconds * 1000
  IN MapSet(m, k, [key |-> k, data |-> v, expiresAt |-> expiresAt])

cacheSet(m, t, k, v, ttl) ==
  LET ttlSeconds == IF ttl = Undefined THEN DefaultTtlSeconds ELSE ttl
      expiresAt == t + ttlSeconds * 1000
  IN MapSet(m, k, [key |-> k, data |-> v, expiresAt |-> expiresAt])

\* mutant: the expiry is not looked at
cacheGet_noExpiry(m, t, k) ==
  IF ~MapHas(m, k)
  THEN [cache |-> m, value |-> JsNull]
  ELSE [cache |-> m, value |-> MapGet(m, k).data]

cacheGet(m, t, k) ==
  IF ~MapHas(m, k)
  THEN [cache |-> m, value |-> JsNull]
  ELSE IF t > MapGet(m, k).expiresAt
       THEN [cache |-> MapDelete(m, k), value |-> JsNull]
       ELSE [cache |-> m, value |-> MapGet(m, k).data]

cacheHas(m, t, k) ==
  IF ~MapHas(m, k)
  THEN [cache |-> m, value |-> FALSE]
  ELSE IF t > MapGet(m, k).expiresAt
       THEN [cache |-> MapDelete(m, k), value |-> FALSE]
       ELSE [cache |-> m, value |-> TRUE]

\* mutant: every entry is removed
cacheDelete_clear(m, k) == [cache |-> <<>>, value |-> MapHas(m, k)]

cacheDelete(m, k) == [cache |-> MapDelete(m, k), value |-> MapHas(m, k)]

\* the loop of invalidatePattern over the snapshot keys, from index i
RECURSIVE InvalidateLoop(_, _, _, _, _)
InvalidateLoop(m, keys, p, i, count) ==
  IF i > Len(keys)
  THEN [cache |-> m, value |-> count]
  ELSE IF RegExpTest(p, keys[i])
       THEN InvalidateLoop(MapDelete(m, keys[i]), keys, p, i + 1, count + 1)
       ELSE InvalidateLoop(m, keys, p, i + 1, count)

\* mutant: every entry is removed and counted
cacheInvalidatePattern_clear(m, p) == [cache |-> <<>>, value |-> Len(m)]

cacheInvalidatePattern(m, p) == InvalidateLoop(m, MapKeys(m), p, 1, 0)

\* the loop of cleanup over the snapshot entries, from index i
RECURSIVE CleanupLoop(_, _, _, _)
CleanupLoop(m, entries, t, i) ==
  IF i > Len(entries)
  THEN m
  ELSE IF t > entries[i].expiresAt
       THEN CleanupLoop(MapDelete(m, entries[i].key), entries, t, i + 1)
       ELSE CleanupLoop(m, entries, t, i + 1)

\* mutant: an entry at its expiry time is swept too
cacheCleanup_atExpiry(m, t) == SelectSeq(m, LAMBDA e : t < e.expiresAt)

cacheCleanup(m, t) == CleanupLoop(m, m, t, 1)

cacheStats(m) == [size |-> Len(m), keys |-> MapKeys(m)]

\* new InMemoryCache(cleanupIntervalMs)
CacheConstructor(cleanupIntervalMs) ==
  /\ cache = <<>>
  /\ cleanupInterval = IF cleanupIntervalMs = Undefined
                       THEN DefaultCleanupIntervalMs ELSE cleanupIntervalMs
  /\ returned = NoCall

Init ==
  /\ \E ft \in {1, MaxFailureThreshold}, st \in {1, MaxSuccessThreshold},
        to \in {TestTimeout}, rt \in {TestResetTimeout} :
       options = Constructor(ft, st, to, rt)
  /\ stats = reset
  /\ now = StartTime
  /\ calls = [c \in Callers |-> IdleCall]
  /\ orphanOps = FALSE
  /\ orphanTimers = FALSE
  /\ failRun = 0
  /\ consec = 0
  /\ probes = -1
  /\ forced = NotForced
  /\ probing = {}
  /\ recovered = FALSE
  /\ CacheConstructor(Undefined)
  /\ unswept = <<>>

\* callExternalModelApi(apiCall, f) calls execute(apiCall): execute up to its
\* await (or its throw when the circuit is open).  The call takes the first
\* free slot of calls.
Execute(c, b, f) ==
  /\ LoopIdle
  /\ calls[c].pc = "idle"
  /\ \A d \in 1..(c - 1) : calls[d].pc # "idle"
  /\ now + options.timeout <= MaxTime
  /\ IF isRejected(stats, now, options)
     THEN /\ calls' = [calls EXCEPT
                         ![c] = [rejectedCall(stats) EXCEPT !.fallback = f]]
          /\ stats' = stats
     ELSE /\ stats' = admit(stats, now, options)
          /\ calls' = [calls EXCEPT
                         ![c] = [withTimeout(now, options, b)
                                   EXCEPT !.fallback = f]]
  /\ failRun' = IF /\ failRun >= 0
                   /\ failRun < options.failureThreshold
                   /\ InFlight = {}
                THEN failRun ELSE -1
  /\ probes' = IF InFlight # {} \/ isRejected(stats, now, options)
               THEN -1
               ELSE IF /\ failRun = options.failureThreshold
                       /\ now - stats.lastFailureTime >= TestAdvance
                    THEN 0
                    ELSE probes
  /\ forced' = IF isRejected(stats, now, options)
               THEN IF forced.kind = "open" THEN forced ELSE NotForced
               ELSE IF forced.kind = "open"
                    THEN [forced EXCEPT !.kind = "probe"]
                    ELSE IF forced.kind = "close"
                         THEN [forced EXCEPT !.kind = "admit"]
                         ELSE NotForced
  /\ UNCHANGED <<cache, cleanupInterval, returned, unswept>>
  /\ UNCHANGED <<options, now, orphanOps, orphanTimers, consec>>
  /\ ProbingUpdate
  /\ UNCHANGED recovered

\* the wrapped operation settles: the .then / .catch callback of withTimeout
\* (clearTimeout, then resolve or reject)
OpSettle(c, out) ==
  /\ LoopIdle
  /\ calls[c].op = "pending"
  /\ calls' = [calls EXCEPT ![c].op = "settled",
                            ![c].opOutcome = out,
                            ![c].timer = FALSE,
                            ![c].deadline = 0,
                            ![c].promise = SettlePromise(calls[c].promise, out)]
  /\ UNCHANGED <<cache, cleanupInterval, returned, unswept>>
  /\ UNCHANGED <<options, stats, now, orphanOps, orphanTimers,
                 failRun, consec, probes, forced>>
  /\ ProbingUpdate
  /\ UNCHANGED recovered

\* the setTimeout callback of withTimeout
TimerFire(c) ==
  /\ LoopIdle
  /\ calls[c].timer
  /\ now >= calls[c].deadline
  /\ calls' = [calls EXCEPT ![c].timer = FALSE,
                            ![c].promise =
                               SettlePromise(calls[c].promise, TimeoutError)]
  /\ UNCHANGED <<cache, cleanupInterval, returned, unswept>>
  /\ UNCHANGED <<options, stats, now, orphanOps, orphanTimers,
                 failRun, consec, probes, forced>>
  /\ ProbingUpdate
  /\ UNCHANGED recovered

\* mutant: the catch block throws an error of its own
Continue_ownError(c) ==
  /\ calls[c].pc = "awaiting"
  /\ calls[c].promise # "pending"
  /\ LET p == calls[c].promise
         ok == p \in Values
     IN /\ stats' = IF ok THEN onSuccess(stats, options)
                          ELSE onFailure(stats, now, options)
        /\ calls' = [calls EXCEPT ![c].pc = "done",
                                  ![c].result = IF ok THEN p ELSE "e1",
                                  ![c].updates = calls[c].updates + 1,
                                  ![c].pre = stats]
        /\ failRun' = IF failRun >= 0 /\ p \in Errors
                      THEN failRun + 1 ELSE -1
        /\ consec' = IF ok THEN 0 ELSE consec + 1
        /\ probes' = IF probes \in {0, 1} /\ ok THEN probes + 1 ELSE -1
        /\ forced' = IF forced.kind = "open" THEN forced ELSE NotForced
  /\ UNCHANGED <<cache, cleanupInterval, returned, unswept>>
  /\ UNCHANGED <<options, now, orphanOps, orphanTimers>>
  /\ ProbingUpdate
  /\ UNCHANGED recovered

\* execute after its await: onSuccess and return, or onFailure and rethrow
Continue(c) ==
  /\ calls[c].pc = "awaiting"
  /\ calls[c].promise # "pending"
  /\ LET p == calls[c].promise
         ok == p \in Values
     IN /\ stats' = IF ok THEN onSuccess(stats, options)
                          ELSE onFailure(stats, now, options)
        /\ calls' = [calls EXCEPT ![c].pc = "done",
                                  ![c].result = p,
                                  ![c].updates = calls[c].updates + 1,
                                  ![c].pre = stats]
        /\ failRun' = IF failRun >= 0 /\ p \in Errors
                      THEN failRun + 1 ELSE -1
        /\ consec' = IF ok THEN 0 ELSE consec + 1
        /\ probes' = IF probes \in {0, 1} /\ ok THEN probes + 1 ELSE -1
        /\ forced' = IF forced.kind = "open" THEN forced ELSE NotForced
  /\ UNCHANGED <<cache, cleanupInterval, returned, unswept>>
  /\ UNCHANGED <<options, now, orphanOps, orphanTimers>>
  /\ ProbingUpdate
  /\ UNCHANGED recovered

\* mutant: the catch block rethrows
callExternalModelApi_rethrow(c) ==
  /\ calls[c].pc = "done"
  /\ calls' = [calls EXCEPT ![c].pc = "resolved",
                            ![c].out = calls[c].result]
  /\ UNCHANGED <<cache, cleanupInterval, returned, unswept>>
  /\ UNCHANGED <<options, stats, now, orphanOps, orphanTimers,
                 failRun, consec, probes, forced>>
  /\ ProbingUpdate
  /\ UNCHANGED recovered

\* callExternalModelApi after its await of execute: return the result, or
\* (catch) log the error and return the fallback
callExternalModelApi(c) ==
  /\ calls[c].pc = "done"
  /\ calls' = [calls EXCEPT ![c].pc = "resolved",
                            ![c].out = IF calls[c].result \in Values
                                       THEN calls[c].result
                                       ELSE calls[c].fallback]
  /\ UNCHANGED <<cache, cleanupInterval, returned, unswept>>
  /\ UNCHANGED <<options, stats, now, orphanOps, orphanTimers,
                 failRun, consec, probes, forced>>
  /\ ProbingUpdate
  /\ UNCHANGED recovered

\* The caller receives what callExternalModelApi resolved with.  What the
\* call left pending (a timed out operation, an uncleared timer) stays
\* pending.
Return(c) ==
  /\ calls[c].pc = "resolved"
  /\ calls' = [calls EXCEPT ![c] = IdleCall]
  /\ orphanOps' = (orphanOps \/ calls[c].op = "pending")
  /\ orphanTimers' = (orphanTimers \/ calls[c].timer)
  /\ UNCHANGED <<cache, cleanupInterval, returned, unswept>>
  /\ UNCHANGED <<options, stats, now, failRun, consec, probes, forced>>
  /\ ProbingUpdate
  /\ UNCHANGED recovered

\* mutant: the .then callback does the bookkeeping
OrphanOpSettle_counts ==
  /\ LoopIdle
  /\ orphanOps
  /\ orphanOps' \in BOOLEAN
  /\ stats' = onSuccess(stats, options)
  /\ UNCHANGED <<cache, cleanupInterval, returned, unswept>>
  /\ UNCHANGED <<options, now, calls, orphanTimers, failRun, consec, probes,
                 forced>>
  /\ ProbingUpdate
  /\ UNCHANGED recovered

\* an operation of a timed out call settles after the call has returned:
\* clearTimeout, then resolve / reject on an already settled promise; other
\* such operations may remain
OrphanOpSettle ==
  /\ LoopIdle
  /\ orphanOps
  /\ orphanOps' \in BOOLEAN
  /\ UNCHANGED <<cache, cleanupInterval, returned, unswept>>
  /\ UNCHANGED <<options, stats, now, calls, orphanTimers,
                 failRun, consec, probes, forced>>
  /\ ProbingUpdate
  /\ UNCHANGED recovered

\* mutant: the timer callback does the bookkeeping
OrphanTimerFire_counts ==
  /\ LoopIdle
  /\ orphanTimers
  /\ orphanTimers' \in BOOLEAN
  /\ stats' = onFailure(stats, now, options)
  /\ UNCHANGED <<cache, cleanupInterval, returned, unswept>>
  /\ UNCHANGED <<options, now, calls, orphanOps, failRun, consec, probes,
                 forced>>
  /\ ProbingUpdate
  /\ UNCHANGED recovered

\* a timer left pending by a returned call fires: reject on an already
\* settled promise; other such timers may remain
OrphanTimerFire ==
  /\ LoopIdle
  /\ orphanTimers
  /\ orphanTimers' \in BOOLEAN
  /\ UNCHANGED <<cache, cleanupInterval, returned, unswept>>
  /\ UNCHANGED <<options, stats, now, calls, orphanOps,
                 failRun, consec, probes, forced>>
  /\ ProbingUpdate
  /\ UNCHANGED recovered

\* mutant: lastFailureTime is not stamped
forceOpen_noStamp ==
  /\ LoopIdle
  /\ stats' = [stats EXCEPT !.state = "OPEN"]
  /\ failRun' = -1
  /\ probes' = -1
  /\ forced' = [kind |-> "open", at |-> now]
  /\ UNCHANGED <<cache, cleanupInterval, returned, unswept>>
  /\ UNCHANGED <<options, now, calls, orphanOps, orphanTimers,
                 consec>>
  /\ ProbingUpdate
  /\ UNCHANGED recovered

forceOpen ==
  /\ LoopIdle
  /\ stats' = [stats EXCEPT !.state = "OPEN", !.lastFailureTime = now]
  /\ failRun' = -1
  /\ probes' = -1
  /\ forced' = [kind |-> "open", at |-> now]
  /\ UNCHANGED <<cache, cleanupInterval, returned, unswept>>
  /\ UNCHANGED <<options, now, calls, orphanOps, orphanTimers,
                 consec>>
  /\ ProbingUpdate
  /\ UNCHANGED recovered

\* mutant: only the state is set
forceClose_stateOnly ==
  /\ LoopIdle
  /\ stats' = [stats EXCEPT !.state = "CLOSED"]
  /\ failRun' = -1
  /\ consec' = 0
  /\ probes' = -1
  /\ forced' = [kind |-> "close",
                at |-> IF forced.kind = "open" THEN forced.at ELSE Null]
  /\ UNCHANGED <<cache, cleanupInterval, returned, unswept>>
  /\ UNCHANGED <<options, now, calls, orphanOps, orphanTimers>>
  /\ ProbingUpdate
  /\ UNCHANGED recovered

forceClose ==
  /\ LoopIdle
  /\ stats' = reset
  /\ failRun' = -1
  /\ consec' = 0
  /\ probes' = -1
  /\ forced' = [kind |-> "close",
                at |-> IF forced.kind = "open" THEN forced.at ELSE Null]
  /\ UNCHANGED <<cache, cleanupInterval, returned, unswept>>
  /\ UNCHANGED <<options, now, calls, orphanOps, orphanTimers>>
  /\ ProbingUpdate
  /\ UNCHANGED recovered

\* The clock advances; a pending timer fires before the clock passes its
\* deadline.
Tick(d) ==
  /\ LoopIdle
  /\ now + d <= MaxTime
  /\ \A c \in Callers : calls[c].timer => calls[c].deadline >= now + d
  /\ now' = now + d
  /\ returned' = NoCall
  /\ UNCHANGED <<cache, cleanupInterval, unswept>>
  /\ UNCHANGED breakerVars

\* ---------------------------------------------------------- cache methods
set(k, v, ttl) ==
  /\ now <= MaxSetTime
  /\ cache' = cacheSet(cache, now, k, v, ttl)
  /\ unswept' = cacheSet(unswept, now, k, v, ttl)
  /\ returned' = Returns("set", k, <<v, ttl>>, "undefined")
  /\ UNCHANGED <<now, cleanupInterval>>
  /\ UNCHANGED breakerVars

get(k) ==
  /\ cache' = cacheGet(cache, now, k).cache
  /\ unswept' = cacheGet(unswept, now, k).cache
  /\ returned' = Returns("get", k, <<>>, cacheGet(cache, now, k).value)
  /\ UNCHANGED <<now, cleanupInterval>>
  /\ UNCHANGED breakerVars

has(k) ==
  /\ cache' = cacheHas(cache, now, k).cache
  /\ unswept' = cacheHas(unswept, now, k).cache
  /\ returned' = Returns("has", k, <<>>, cacheHas(cache, now, k).value)
  /\ UNCHANGED <<now, cleanupInterval>>
  /\ UNCHANGED breakerVars

delete(k) ==
  /\ cache' = cacheDelete(cache, k).cache
  /\ unswept' = cacheDelete(unswept, k).cache
  /\ returned' = Returns("delete", k, <<>>, cacheDelete(cache, k).value)
  /\ UNCHANGED <<now, cleanupInterval>>
  /\ UNCHANGED breakerVars

\* mutant: the syntax error is swallowed and 0 returned
invalidatePattern_swallow(p) ==
  /\ IF RegExpOk(p)
     THEN /\ cache' = cacheInvalidatePattern(cache, p).cache
          /\ unswept' = cacheInvalidatePattern(unswept, p).cache
          /\ returned' = Returns("invalidatePattern", p, <<>>,
                                 cacheInvalidatePattern(cache, p).value)
     ELSE /\ cache' = cache
          /\ unswept' = unswept
          /\ returned' = Returns("invalidatePattern", p, <<>>, 0)
  /\ UNCHANGED <<now, cleanupInterval>>
  /\ UNCHANGED breakerVars

\* new RegExp(p) throws before anything is read or deleted
invalidatePattern(p) ==
  /\ IF RegExpOk(p)
     THEN /\ cache' = cacheInvalidatePattern(cache, p).cache
          /\ unswept' = cacheInvalidatePattern(unswept, p).cache
          /\ returned' = Returns("invalidatePattern", p, <<>>,
                                 cacheInvalidatePattern(cache, p).value)
     ELSE /\ cache' = cache
          /\ unswept' = unswept
          /\ returned' = Throws("invalidatePattern", p, <<>>, SyntaxError)
  /\ UNCHANGED <<now, cleanupInterval>>
  /\ UNCHANGED breakerVars

clear ==
  /\ cache' = <<>>
  /\ unswept' = <<>>
  /\ returned' = Returns("clear", <<>>, <<>>, "undefined")
  /\ UNCHANGED <<now, cleanupInterval>>
  /\ UNCHANGED breakerVars

\* mutant: the sweep takes entries that expire within the next second
cleanup_ahead ==
  /\ cleanupInterval # Null
  /\ cache' = cacheCleanup(cache, now + 1000 * TestTtlSeconds)
  /\ UNCHANGED <<now, cleanupInterval, returned, unswept>>
  /\ UNCHANGED breakerVars

\* the setInterval callback
cleanup ==
  /\ cleanupInterval # Null
  /\ cache' = cacheCleanup(cache, now)
  /\ UNCHANGED <<now, cleanupInterval, returned, unswept>>
  /\ UNCHANGED breakerVars

\* mutant: stats sweeps first
cacheStatsCall_sweeps ==
  /\ cache' = cacheCleanup(cache, now)
  /\ unswept' = unswept
  /\ returned' = Returns("stats", <<>>, <<>>,
                         cacheStats(cacheCleanup(cache, now)))
  /\ UNCHANGED <<now, cleanupInterval>>
  /\ UNCHANGED breakerVars

\* stats()
cacheStatsCall ==
  /\ returned' = Returns("stats", <<>>, <<>>, cacheStats(cache))
  /\ UNCHANGED <<now, cache, cleanupInterval, unswept>>
  /\ UNCHANGED breakerVars

\* mutant: the interval is not cleared
destroy_keepTimer ==
  /\ cache' = <<>>
  /\ unswept' = <<>>
  /\ returned' = Returns("destroy", <<>>, <<>>, "undefined")
  /\ UNCHANGED <<now, cleanupInterval>>
  /\ UNCHANGED breakerVars

destroy ==
  /\ cleanupInterval' = Null
  /\ cache' = <<>>
  /\ unswept' = <<>>
  /\ returned' = Returns("destroy", <<>>, <<>>, "undefined")
  /\ UNCHANGED now
  /\ UNCHANGED breakerVars

Next ==
  \/ \E c \in Callers, b \in {"async"} \cup Errors, f \in Fallbacks :
       Execute(c, b, f)
  \/ \E c \in Callers, out \in Values \cup Errors : OpSettle(c, out)
  \/ \E c \in Callers : TimerFire(c)
  \/ \E c \in Callers : Continue(c)
  \/ \E c \in Callers : callExternalModelApi(c)
  \/ \E c \in Callers : Return(c)
  \/ OrphanOpSettle
  \/ OrphanTimerFire
  \/ forceOpen
  \/ forceClose
  \/ \E d \in TickSteps : Tick(d)

Spec == Init /\ [][Next]_vars

\* A hung dependency: no operation ever settles, and nobody intervenes.
\* The event loop runs a due timer and the clock advances however often
\* callers call in between (strong fairness); a queued continuation runs.
NextHung ==
  \/ \E c \in Callers, f \in Fallbacks : Execute(c, "async", f)
  \/ \E c \in Callers : TimerFire(c)
  \/ \E c \in Callers : Continue(c)
  \/ \E c \in Callers : callExternalModelApi(c)
  \/ \E c \in Callers : Return(c)
  \/ \E d \in TickSteps : Tick(d)

SpecHung ==
  /\ Init
  /\ [][NextHung]_vars
  /\ SF_vars(\E d \in TickSteps : Tick(d))
  /\ \A c \in Callers : /\ SF_vars(TimerFire(c))
                         /\ WF_vars(Continue(c))
                         /\ WF_vars(callExternalModelApi(c))
                         /\ WF_vars(Return(c))

\* A breaker whose call timeout is longer than its cooldown (the constructor
\* accepts any pair): a call can still be at its await when the cooldown
\* that followed its admission is over.
InitLate ==
  /\ \E ft \in {1, MaxFailureThreshold}, st \in {1, MaxSuccessThreshold} :
       options = Constructor(ft, st, TestResetTimeout, TestTimeout)
  /\ stats = reset
  /\ now = StartTime
  /\ calls = [c \in Callers |-> IdleCall]
  /\ orphanOps = FALSE
  /\ orphanTimers = FALSE
  /\ failRun = 0
  /\ consec = 0
  /\ probes = -1
  /\ forced = NotForced
  /\ probing = {}
  /\ recovered = FALSE
  /\ CacheConstructor(Undefined)
  /\ unswept = <<>>

SpecLate == InitLate /\ [][Next]_vars

\* Recovery.  A breaker with a short cooldown is used in any way (the steps
\* of Next); at some point, between two tasks of the event loop, the
\* dependency recovers for good (Recover).  From then on every operation
\* resolves, and before its timer fires; forceOpen is not called; callers
\* keep calling: the clock does not advance past an instant at which the
\* breaker would admit a call and no call is in flight (CallDue) before a
\* call is made; time keeps advancing, in steps of TestTimeout.  The event
\* loop runs a settled operation's callback and advances the clock however
\* often callers call in between (strong fairness).
InitRecover ==
  /\ \E ft \in {1, MaxFailureThreshold}, st \in {1, MaxSuccessThreshold} :
       options = Constructor(ft, st, TestTimeout, TestTimeout)
  /\ stats = reset
  /\ now = StartTime
  /\ calls = [c \in Callers |-> IdleCall]
  /\ orphanOps = FALSE
  /\ orphanTimers = FALSE
  /\ failRun = 0
  /\ consec = 0
  /\ probes = -1
  /\ forced = NotForced
  /\ probing = {}
  /\ recovered = FALSE
  /\ CacheConstructor(Undefined)
  /\ unswept = <<>>

\* the clock of the model leaves room for a cooldown and successThreshold
\* calls one after another
TimeToRecover ==
  now + options.resetTimeout + options.successThreshold * options.timeout
    <= MaxTime

Recover ==
  /\ LoopIdle
  /\ ~recovered
  /\ TimeToRecover
  /\ recovered' = TRUE
  /\ UNCHANGED <<options, stats, now, calls, orphanOps, orphanTimers,
                 failRun, consec, probes, forced, probing>>
  /\ UNCHANGED <<cache, cleanupInterval, returned, unswept>>

CallDue ==
  /\ LoopIdle
  /\ InFlight = {}
  /\ stats.state # "CLOSED"
  /\ ~isRejected(stats, now, options)

RecoveredExecute ==
  recovered /\ \E c \in Callers, f \in Fallbacks : Execute(c, "async", f)

RecoveredOpSettle(c) ==
  recovered /\ \E out \in Values : OpSettle(c, out)

RecoveredTick ==
  recovered /\ ~CallDue /\ Tick(TestTimeout)

\* before the recovery: calls are made one at a time, their operations
\* resolve, fail (e1) or hang, and the breaker is forced open and closed
NextBefore ==
  \/ \E f \in Fallbacks : Execute(1, "async", f)
  \/ \E c \in Callers, out \in Values \cup {"e1"} : OpSettle(c, out)
  \/ \E c \in Callers : TimerFire(c)
  \/ \E c \in Callers : Continue(c)
  \/ \E c \in Callers : callExternalModelApi(c)
  \/ \E c \in Callers : Return(c)
  \/ forceOpen
  \/ forceClose
  \/ Tick(TestTimeout)

NextRecover ==
  \/ ~recovered /\ TimeToRecover /\ NextBefore
  \/ Recover
  \/ RecoveredExecute
  \/ \E c \in Callers : RecoveredOpSettle(c)
  \/ recovered /\ \E c \in Callers : Continue(c)
  \/ recovered /\ \E c \in Callers : callExternalModelApi(c)
  \/ recovered /\ \E c \in Callers : Return(c)
  \/ recovered /\ OrphanOpSettle
  \/ recovered /\ forceClose
  \/ RecoveredTick

SpecRecover ==
  /\ InitRecover
  /\ [][NextRecover]_vars
  /\ WF_vars(RecoveredExecute)
  /\ SF_vars(RecoveredTick)
  /\ \A c \in Callers : /\ SF_vars(RecoveredOpSettle(c))
                         /\ WF_vars(recovered /\ Continue(c))
                         /\ WF_vars(recovered /\ callExternalModelApi(c))
                         /\ WF_vars(recovered /\ Return(c))

\* The cache on its own: the breaker of the module is constructed and never
\* called.
CacheInit ==
  /\ options = Constructor(0, 0, 0, 0)
  /\ stats = reset
  /\ now = StartTime
  /\ calls = [c \in Callers |-> IdleCall]
  /\ orphanOps = FALSE
  /\ orphanTimers = FALSE
  /\ failRun = 0
  /\ consec = 0
  /\ probes = -1
  /\ forced = NotForced
  /\ probing = {}
  /\ recovered = FALSE
  /\ CacheConstructor(Undefined)
  /\ unswept = <<>>

CacheNext ==
  \/ \E k \in Keys, v \in Data, ttl \in Ttls : set(k, v, ttl)
  \/ \E k \in Keys : get(k)
  \/ \E k \in Keys : has(k)
  \/ \E k \in Keys : delete(k)
  \/ \E p \in Patterns : invalidatePattern(p)
  \/ clear
  \/ cleanup
  \/ cacheStatsCall
  \/ destroy
  \/ \E d \in TickSteps : Tick(d)

SpecCache == CacheInit /\ [][CacheNext]_vars

\* ------------------------------------------------------------ properties
Done(c) == calls[c].pc = "done"

\* caller c makes a call in this step
Starts(c) == calls[c].pc = "idle" /\ calls'[c].pc # "idle"

\* the circuit is open and its cooldown is still running / is over
CooldownRunning ==
  /\ stats.state = "OPEN"
  /\ stats.lastFailureTime # Null
  /\ now - stats.lastFailureTime < options.resetTimeout

CooldownOver ==
  /\ stats.state = "OPEN"
  /\ stats.lastFailureTime # Null
  /\ now - stats.lastFailureTime >= options.resetTimeout

\* C1: a fresh breaker is CLOSED; while the calls made so far were made one
\* after another and each failed by its operation, failures is their number,
\* the state is CLOSED below failureThreshold of them and OPEN at the
\* failureThreshold-th.
C1_TripsAtThreshold ==
  failRun >= 0 =>
    /\ stats.failures = failRun
    /\ stats.state =
         IF failRun >= options.failureThreshold THEN "OPEN" ELSE "CLOSED"

C1_Witness ==
  /\ failRun = options.failureThreshold
  /\ options.failureThreshold >= 3
  /\ stats.state = "OPEN"
  /\ \E c \in Callers : Done(c) /\ calls[c].result \in Errors
                        /\ calls[c].pre.state = "CLOSED"

\* C2: while OPEN with less than resetTimeout elapsed since lastFailureTime,
\* an execute call rejects with the circuit-open error, does not invoke the
\* operation (and arms no timer), and leaves stats unchanged.
C2_OpenRejects ==
  [][\A c \in Callers :
       (CooldownRunning /\ Starts(c)) =>
         /\ calls'[c].pc = "done"
         /\ calls'[c].result = OpenError
         /\ calls'[c].invoked = 0
         /\ calls'[c].op = "none"
         /\ ~calls'[c].timer
         /\ stats' = stats]_vars

C2_Witness ==
  \E c \in Callers :
    /\ Done(c)
    /\ calls[c].result = OpenError
    /\ calls[c].invoked = 0
    /\ calls[c].pre = stats
    /\ CooldownRunning
    /\ now > stats.lastFailureTime

\* C3: when OPEN and resetTimeout or more has elapsed since lastFailureTime,
\* an execute call sets the state to HALF_OPEN (changing nothing else of
\* stats), invokes the operation and is at its await: it is not rejected.
C3_ProbeAfterCooldown ==
  [][\A c \in Callers :
       (CooldownOver /\ Starts(c)) =>
         /\ stats' = [stats EXCEPT !.state = "HALF_OPEN"]
         /\ calls'[c].pc = "awaiting"
         /\ calls'[c].invoked = 1
         /\ calls'[c].result # OpenError]_vars

C3_Witness ==
  \E c \in Callers :
    /\ stats.state = "HALF_OPEN"
    /\ stats.successes = 0
    /\ now - stats.lastFailureTime = options.resetTimeout
    /\ calls[c].pc = "awaiting"
    /\ calls[c].op = "pending"
    /\ calls[c].promise = "pending"
    /\ calls[c].deadline = now + options.timeout

\* the stats object of a closed breaker with zeroed counters
ClosedZero == [failures |-> 0, successes |-> 0, lastFailureTime |-> Null,
               state |-> "CLOSED"]

\* the call of c has just returned a value / thrown after invoking the
\* operation, and its bookkeeping found the breaker in state st
SuccessIn(c, st) ==
  Done(c) /\ calls[c].result \in Values /\ calls[c].pre.state = st

FailureIn(c, st) ==
  /\ Done(c) /\ calls[c].invoked = 1
  /\ calls[c].result \notin Values /\ calls[c].pre.state = st

TestScenario ==
  /\ options.failureThreshold = 3
  /\ options.successThreshold = 2
  /\ options.resetTimeout = TestResetTimeout

\* C4: a success in HALF_OPEN adds one to successes, and the one that makes
\* successes reach successThreshold leaves the breaker CLOSED with zeroed
\* counters and lastFailureTime null.  With failureThreshold 3,
\* successThreshold 2, resetTimeout 5000: after three failures and a pause of
\* 5100 ms, one successful call leaves HALF_OPEN, a second one closes.
C4_HalfOpenSuccess ==
  /\ \A c \in Callers :
       SuccessIn(c, "HALF_OPEN") =>
         IF calls[c].pre.successes + 1 >= options.successThreshold
         THEN stats = ClosedZero
         ELSE stats = [calls[c].pre EXCEPT
                         !.successes = calls[c].pre.successes + 1]
  /\ TestScenario =>
       /\ probes = 1 => stats.state = "HALF_OPEN" /\ stats.successes = 1
       /\ probes = 2 => stats = ClosedZero

C4_Witness ==
  \E c \in Callers :
    /\ TestScenario
    /\ probes = 2
    /\ SuccessIn(c, "HALF_OPEN")
    /\ calls[c].pre.successes = 1
    /\ calls[c].pre.failures = 3
    /\ stats = ClosedZero

\* C5: a failure or timeout in HALF_OPEN leaves the breaker OPEN with
\* successes 0 and lastFailureTime now, whatever failures is; an execute call
\* made in that state before resetTimeout has elapsed is rejected.
C5_HalfOpenFailure ==
  /\ [](\A c \in Callers :
          FailureIn(c, "HALF_OPEN") =>
            /\ stats.state = "OPEN"
            /\ stats.successes = 0
            /\ stats.lastFailureTime = now)
  /\ [][\A c \in Callers :
          (/\ Starts(c)
           /\ stats.state = "OPEN" /\ stats.successes = 0
           /\ stats.lastFailureTime # Null
           /\ now < stats.lastFailureTime + options.resetTimeout) =>
            calls'[c].result = OpenError /\ calls'[c].invoked = 0]_vars

C5_Witness ==
  \E c \in Callers :
    /\ FailureIn(c, "HALF_OPEN")
    /\ stats.failures < options.failureThreshold
    /\ stats.state = "OPEN"
    /\ stats.lastFailureTime = now

\* C6: a success while CLOSED sets failures to 0 and changes nothing else;
\* while CLOSED, failures is the number of failures since the last success,
\* and a failure while CLOSED trips exactly when that number reaches
\* failureThreshold.
C6_ClosedSuccessClears ==
  /\ \A c \in Callers :
       SuccessIn(c, "CLOSED") => stats = [calls[c].pre EXCEPT !.failures = 0]
  /\ stats.state = "CLOSED" => stats.failures = consec
  /\ \A c \in Callers :
       FailureIn(c, "CLOSED") =>
         stats.state =
           IF consec >= options.failureThreshold THEN "OPEN" ELSE "CLOSED"

C6_Witness ==
  \E c \in Callers :
    /\ SuccessIn(c, "CLOSED")
    /\ options.failureThreshold = 3
    /\ calls[c].pre.failures = 2
    /\ stats.failures = 0
    /\ stats.state = "CLOSED"

\* C7: a call whose operation has not settled by its deadline is rejected
\* with the timeout error and counted as one failure (failures + 1,
\* lastFailureTime now, trip rules); an operation that settles after its call
\* has timed out and returned changes nothing of stats.
C7_TimeoutCounts ==
  /\ [](\A c \in Callers :
          /\ (calls[c].pc = "awaiting" /\ calls[c].promise = "pending") =>
               calls[c].timer /\ now <= calls[c].deadline
          /\ (Done(c) /\ calls[c].result = TimeoutError) =>
               /\ now >= calls[c].deadline
               /\ calls[c].op = "pending"
               /\ calls[c].updates = 1
               /\ stats.failures = calls[c].pre.failures + 1
               /\ stats.lastFailureTime = now
               /\ stats.successes =
                    IF calls[c].pre.state = "HALF_OPEN"
                    THEN 0 ELSE calls[c].pre.successes
               /\ stats.state =
                    IF \/ calls[c].pre.state = "HALF_OPEN"
                       \/ stats.failures >= options.failureThreshold
                    THEN "OPEN" ELSE calls[c].pre.state)
  /\ [][(orphanOps /\ ~orphanOps') => stats' = stats]_vars

C7_Witness ==
  \E c \in Callers :
    /\ Done(c)
    /\ calls[c].result = TimeoutError
    /\ calls[c].op = "pending"
    /\ orphanOps
    /\ stats.failures = 2
    /\ stats.state = "CLOSED"

\* C8: with a hung dependency every admitted call is eventually rejected
\* with the timeout error, and a CLOSED breaker whose counted failures and
\* calls in flight together reach failureThreshold eventually is OPEN.
C8_HungDependencyTrips ==
  /\ \A c \in Callers :
       (calls[c].pc = "awaiting") ~>
          (Done(c) /\ calls[c].result = TimeoutError)
  /\ (/\ stats.state = "CLOSED"
      /\ stats.failures + Cardinality(InFlight) >= options.failureThreshold)
       ~> (stats.state = "OPEN")

C8_Witness ==
  \E c \in Callers :
    /\ Done(c)
    /\ calls[c].result = TimeoutError
    /\ calls[c].pre.state = "CLOSED"
    /\ stats.state = "OPEN"
    /\ stats.failures = 3
    /\ orphanOps

\* C9: a call whose operation fails with error e throws e itself, after the
\* failure has been counted (failures + 1, lastFailureTime now) exactly once.
C9_ErrorPassesThrough ==
  \A c \in Callers :
    (Done(c) /\ calls[c].opOutcome \in Errors) =>
      /\ calls[c].result = calls[c].opOutcome
      /\ calls[c].updates = 1
      /\ stats.failures = calls[c].pre.failures + 1
      /\ stats.lastFailureTime = now

C9_Witness ==
  \E c \in Callers :
    /\ Done(c)
    /\ calls[c].opOutcome = "e2"
    /\ calls[c].result = "e2"
    /\ calls[c].op = "settled"
    /\ stats.failures = calls[c].pre.failures + 1

\* C10: a call that was admitted has applied exactly one update when its
\* result or error is delivered, none while it awaits, and a rejected call
\* none; what a returned call left behind (a late operation, an uncleared
\* timer) applies no update when it completes.
C10_OneUpdatePerCall ==
  /\ [](\A c \in Callers :
          /\ calls[c].pc \in {"done", "resolved"} =>
               calls[c].updates = calls[c].invoked
          /\ calls[c].pc = "awaiting" => calls[c].updates = 0
          /\ calls[c].result # "none" => calls[c].pc \in {"done", "resolved"})
  /\ [][(\/ orphanOps /\ ~orphanOps'
         \/ orphanTimers /\ ~orphanTimers'
         \/ \E c \in Callers : Done(c) /\ ~Done(c)') => stats' = stats]_vars

C10_Witness ==
  \E c \in Callers :
    /\ Done(c)
    /\ calls[c].timer
    /\ calls[c].op = "settled"
    /\ calls[c].updates = 1
    /\ orphanTimers

\* the call c makes in this step is rejected with the circuit-open error
\* without invoking the operation / is admitted
RejectedStep(c) ==
  /\ calls'[c].pc = "done"
  /\ calls'[c].result = OpenError
  /\ calls'[c].invoked = 0

AdmittedStep(c) ==
  /\ calls'[c].pc = "awaiting"
  /\ calls'[c].invoked = 1

\* a forceOpen step (one that changes anything)
ForceOpenStep == forced'.kind = "open" /\ forced' # forced

\* C11 as stated: forceOpen() at time t leaves the state OPEN and
\* lastFailureTime t; every execute call before t + resetTimeout is rejected
\* without invoking the operation, and the first one at or after
\* t + resetTimeout is admitted as a HALF_OPEN probe.
C11_ProbeAtForcedTime ==
  [][/\ ForceOpenStep =>
          stats' = [stats EXCEPT !.state = "OPEN", !.lastFailureTime = now]
     /\ \A c \in Callers :
          (Starts(c) /\ forced.kind = "open") =>
            IF now < forced.at + options.resetTimeout
            THEN RejectedStep(c)
            ELSE AdmittedStep(c) /\ stats'.state = "HALF_OPEN"]_vars

\* C11 (amended): forceOpen() at time t leaves the state OPEN and
\* lastFailureTime t, whatever the state was; until forceClose() every
\* execute call before t + resetTimeout is rejected without invoking the
\* operation; a call that was in flight and fails or times out after t stamps
\* lastFailureTime again, and the first execute call at or after
\* lastFailureTime + resetTimeout (not t + resetTimeout) is admitted as a
\* HALF_OPEN probe.
C11_ForcedOpenCooldown ==
  [][/\ ForceOpenStep =>
          stats' = [stats EXCEPT !.state = "OPEN", !.lastFailureTime = now]
     /\ forced'.kind = "open" =>
          stats'.state = "OPEN" /\ stats'.lastFailureTime >= forced'.at
     /\ \A c \in Callers :
          (Starts(c) /\ forced.kind = "open") =>
            /\ now < forced.at + options.resetTimeout => RejectedStep(c)
            /\ IF now < stats.lastFailureTime + options.resetTimeout
               THEN RejectedStep(c)
               ELSE AdmittedStep(c) /\ stats'.state = "HALF_OPEN"]_vars

\* after forceOpen() at forced.at a call in flight has failed and restarted
\* the cooldown: a call made when forced.at + resetTimeout has passed is
\* still rejected
C11_Witness ==
  \E c \in Callers :
    /\ forced.kind = "open"
    /\ stats.state = "OPEN"
    /\ stats.lastFailureTime > forced.at
    /\ now >= forced.at + options.resetTimeout
    /\ now < stats.lastFailureTime + options.resetTimeout
    /\ Done(c)
    /\ calls[c].result = OpenError
    /\ calls[c].invoked = 0

Resolved(c) == calls[c].pc = "resolved"

\* C13: callExternalModelApi always resolves with a value, never with an
\* error: with the result of execute when execute returned one, with the
\* fallback it was given when execute threw (circuit open, timeout, or the
\* operation's own error); and the breaker's stats are then exactly as
\* execute leaves them (unchanged for a rejected call, onSuccess / onFailure
\* applied once for an admitted one).
C13_FallbackWrapper ==
  \A c \in Callers :
    Resolved(c) =>
      /\ calls[c].out \in Values \cup Fallbacks
      /\ calls[c].out = IF calls[c].result \in Values
                        THEN calls[c].result
                        ELSE calls[c].fallback
      /\ calls[c].result \in
           Values \cup Errors \cup {OpenError, TimeoutError}
      /\ stats = IF calls[c].invoked = 0
                 THEN calls[c].pre
                 ELSE IF calls[c].result \in Values
                      THEN onSuccess(calls[c].pre, options)
                      ELSE onFailure(calls[c].pre, now, options)

\* a call that timed out resolves with the fallback, and its failure has
\* tripped the breaker
C13_Witness ==
  \E c \in Callers :
    /\ Resolved(c)
    /\ calls[c].result = TimeoutError
    /\ calls[c].out \in Fallbacks
    /\ calls[c].out = calls[c].fallback
    /\ calls[c].pre.state = "CLOSED"
    /\ stats.state = "OPEN"
    /\ stats.failures = calls[c].pre.failures + 1

\* ------------------------------------------------------- cache properties
\* the number of entries stored under key k
Stored(k) == Cardinality({i \in DOMAIN cache : cache[i].key = k})

\* ttlSeconds of a set call whose argument is ttl
TtlSeconds(ttl) == IF ttl = Undefined THEN DefaultTtlSeconds ELSE ttl

Expired(k) == MapHas(cache, k) /\ now > MapGet(cache, k).expiresAt

\* C15: whatever was done before, a value returned by get(k) is the data of
\* an entry stored under k with now <= expiresAt; after a get(k) that
\* returned null no entry for k is left, unless a live entry stores null; and
\* in every state (swept or not) get(k) on an expired entry returns null and
\* removes that entry and nothing else.
C15_NeverStale ==
  /\ \A k \in Keys :
       Expired(k) =>
         cacheGet(cache, now, k) =
           [cache |-> MapDelete(cache, k), value |-> JsNull]
  /\ returned.op = "get" =>
       LET k == returned.key
       IN IF returned.value # JsNull
          THEN /\ MapHas(cache, k)
               /\ now <= MapGet(cache, k).expiresAt
               /\ returned.value = MapGet(cache, k).data
          ELSE MapHas(cache, k) =>
                 /\ now <= MapGet(cache, k).expiresAt
                 /\ MapGet(cache, k).data = JsNull

\* TestAdvance ms after the start get(k) has returned null and k is not
\* stored, while the other key's expired entry still is: nothing has swept
C15_Witness ==
  /\ returned.op = "get"
  /\ returned.value = JsNull
  /\ ~MapHas(cache, returned.key)
  /\ now = StartTime + TestAdvance
  /\ cleanupInterval # Null
  /\ Len(cache) = 1
  /\ cache[1].data = "v"
  /\ cache[1].expiresAt = StartTime + TestTtlSeconds * 1000

\* C16: in every state and for every key k, has(k) returns true exactly
\* when get(k) returns a value other than null, and the two leave the same
\* Map.
C16_HasIsGetNotNull ==
  \A k \in Keys :
    /\ cacheHas(cache, now, k).value = (cacheGet(cache, now, k).value # JsNull)
    /\ cacheHas(cache, now, k).cache = cacheGet(cache, now, k).cache

\* this step is a call of method op with first argument k
CallStep(op, k) ==
  returned' # returned /\ returned'.op = op /\ returned'.key = k

\* m without its entry for k, the other entries as they are and in order
Without(m, k) == SelectSeq(m, LAMBDA e : e.key # k)

\* C17: delete(k) returns false and leaves the Map as it is when k is not
\* stored; when k is stored it returns true and leaves the Map without the
\* entry of k, all other entries as they were.  While k is not stored get(k)
\* returns null and has(k) false, and only set(k) stores k again.
C17_Delete ==
  [][\A k \in Keys :
       /\ CallStep("delete", k) =>
            IF MapHas(cache, k)
            THEN /\ returned'.value = TRUE
                 /\ ~returned'.threw
                 /\ ~MapHas(cache', k)
                 /\ Len(cache') = Len(cache) - 1
                 /\ cache' = Without(cache, k)
            ELSE /\ returned'.value = FALSE
                 /\ ~returned'.threw
                 /\ cache' = cache
       /\ ~MapHas(cache', k) =>
            /\ cacheGet(cache', now', k) = [cache |-> cache', value |-> JsNull]
            /\ cacheHas(cache', now', k) = [cache |-> cache', value |-> FALSE]
       /\ (~MapHas(cache, k) /\ MapHas(cache', k)) =>
            returned'.op = "set" /\ returned'.key = k]_vars

\* delete(k) has returned true, k is gone and the other key's entry is left
C17_Witness ==
  /\ returned.op = "delete"
  /\ returned.value = TRUE
  /\ ~MapHas(cache, returned.key)
  /\ Len(cache) = 1
  /\ now <= cache[1].expiresAt

\* the keys stored in m that pattern p matches
Matching(m, p) == {k \in Keys : MapHas(m, k) /\ RegExpTest(p, k)}

\* C18: invalidatePattern(p) with a well-formed p leaves the Map without the
\* entries whose keys p matched when the call started, the other entries as
\* they were (value, expiry, order), and returns the number of entries
\* removed: the size before minus the size after.
C18_InvalidateExactly ==
  [][\A p \in Patterns :
       (CallStep("invalidatePattern", p) /\ RegExpOk(p)) =>
         /\ ~returned'.threw
         /\ cache' = SelectSeq(cache, LAMBDA e : e.key \notin Matching(cache, p))
         /\ returned'.value = Cardinality(Matching(cache, p))
         /\ returned'.value = cacheStats(cache).size - cacheStats(cache').size
         /\ Matching(cache', p) = {}]_vars

\* a call that removed one of two entries: the one left is not matched
C18_Witness ==
  /\ returned.op = "invalidatePattern"
  /\ ~returned.threw
  /\ returned.value = 1
  /\ Len(cache) = 1
  /\ ~RegExpTest(returned.key, cache[1].key)
  /\ returned.key = <<"^", "a">>

\* C19: invalidatePattern(p) with a malformed p throws the syntax error to
\* its caller, returns no count and leaves the cache as it was; no other call
\* of a cache method throws (set, get, has, delete, clear, stats, destroy,
\* and invalidatePattern with a well-formed p).
C19_OnlyMalformedPatternThrows ==
  [][/\ \A p \in Patterns :
          (CallStep("invalidatePattern", p) /\ ~RegExpOk(p)) =>
            /\ returned'.threw
            /\ returned'.value = SyntaxError
            /\ cache' = cache
            /\ cleanupInterval' = cleanupInterval
     /\ returned'.threw =>
          /\ returned'.op = "invalidatePattern"
          /\ ~RegExpOk(returned'.key)
     /\ returned'.op \in {"set", "get", "has", "delete", "clear", "stats",
                          "destroy"} => ~returned'.threw]_vars

\* the syntax error thrown over a Map holding two entries
C19_Witness ==
  /\ returned.threw
  /\ returned.op = "invalidatePattern"
  /\ returned.key = <<"(">>
  /\ returned.value = SyntaxError
  /\ Len(cache) = 2

\* C20: stats() returns the number of entries stored and their keys, expired
\* entries that have not been removed included, and removes nothing; after
\* clear() the size is 0 and there are no keys.
C20_StatsRaw ==
  [][/\ CallStep("stats", <<>>) =>
          /\ cache' = cache
          /\ returned'.value.size = Len(cache)
          /\ returned'.value.size =
               Cardinality({k \in Keys : MapHas(cache, k)})
          /\ Len(returned'.value.keys) = Len(cache)
          /\ \A i \in DOMAIN cache : returned'.value.keys[i] = cache[i].key
     /\ CallStep("clear", <<>>) =>
          cacheStats(cache') = [size |-> 0, keys |-> <<>>]]_vars

\* stats() has counted two entries, one of them expired
C20_Witness ==
  /\ returned.op = "stats"
  /\ returned.value.size = 2
  /\ Len(cache) = 2
  /\ Len(returned.value.keys) = 2
  /\ cache[1].expiresAt < now
  /\ cache[2].expiresAt >= now

\* C21: destroy() does not throw, leaves the Map empty and the sweep timer
\* stopped (null), whether or not the cache was ever used; once the timer is
\* stopped it stays stopped and no sweep changes the Map; a destroy() that
\* follows a destroy() changes nothing.
C21_DestroyIdempotent ==
  [][/\ (returned'.op = "destroy" /\ now' = now) =>
          /\ ~returned'.threw
          /\ cache' = <<>>
          /\ cleanupInterval' = Null
     /\ cleanupInterval = Null =>
          /\ cleanupInterval' = Null
          /\ (returned' = returned /\ now' = now) => cache' = cache
     /\ (returned.op = "destroy" /\ returned'.op = "destroy" /\ now' = now) =>
          cache' = cache /\ cleanupInterval' = cleanupInterval]_vars

\* destroy() has been called on a cache that was in use
C21_Witness ==
  /\ returned.op = "destroy"
  /\ ~returned.threw
  /\ cleanupInterval = Null
  /\ cache = <<>>
  /\ now = MaxSetTime

\* a step of the sweep that removes something: no method is called, the
\* clock stands, the Map changes
SweepStep == returned' = returned /\ now' = now /\ cache' # cache

\* the entries of m with expiresAt >= t, as they are and in order
Unexpired(m, t) == SelectSeq(m, LAMBDA e : e.expiresAt >= t)

\* C22: a run of the sweep leaves the Map without the entries whose
\* expiresAt < now and with every entry whose expiresAt >= now as it was
\* (value, expiry, order); it adds and modifies nothing.  This holds of the
\* sweep in every reachable state, and of every sweep step taken.
C22_SweepExactly ==
  [][/\ cacheCleanup(cache', now') = Unexpired(cache', now')
     /\ SweepStep =>
          /\ cache' = Unexpired(cache, now)
          /\ \A k \in Keys :
               MapHas(cache', k) =>
                 MapHas(cache, k) /\ MapGet(cache', k) = MapGet(cache, k)
          /\ \A k \in Keys :
               MapHas(cache, k) =>
                 (MapHas(cache', k) <=> MapGet(cache, k).expiresAt >= now)]_vars

\* stats() counted two entries and, with no call and no clock advance since,
\* one is left, at its expiry time: a sweep has removed the expired one
C22_Witness ==
  /\ returned.op = "stats"
  /\ returned.value.size = 2
  /\ Len(cache) = 1
  /\ cache[1].expiresAt = now
  /\ cleanupInterval # Null

\* C30: what get(k) and has(k) return is the same on the swept Map as on the
\* Map that received the same calls and was never swept, for every key, in
\* every reachable state (whatever sweeps ran, wherever they ran): a sweep
\* removes only entries that get and has already report absent.
C30_SweepInvisible ==
  \A k \in Keys :
    /\ cacheGet(cache, now, k).value = cacheGet(unswept, now, k).value
    /\ cacheHas(cache, now, k).value = cacheHas(unswept, now, k).value

\* get returned null for lack of an entry, and the sweep has removed an
\* expired entry that is still stored where no sweep ran
C30_Witness ==
  /\ returned.op = "get"
  /\ returned.value = JsNull
  /\ Len(cache) < Len(unswept)
  /\ \E k \in Keys : MapHas(unswept, k) /\ ~MapHas(cache, k)

\* execute of caller c resumes after its await in this step, with a value /
\* with an error
SucceedsStep(c) ==
  /\ calls[c].pc = "awaiting" /\ calls'[c].pc = "done"
  /\ calls'[c].result \in Values

FailsStep(c) ==
  /\ calls[c].pc = "awaiting" /\ calls'[c].pc = "done"
  /\ calls'[c].result \notin Values

\* forceOpen() / forceClose(): the steps that write stats and touch no call
ManualStep == calls' = calls /\ stats' # stats

\* C23: every step that changes state is one of: CLOSED->OPEN by a failure
\* that brings failures to failureThreshold, OPEN->HALF_OPEN by an admitted
\* execute whose cooldown is over, HALF_OPEN->CLOSED by a success that brings
\* successes to successThreshold, HALF_OPEN->OPEN by a failure, forceOpen
\* (to OPEN), forceClose (to CLOSED).  In particular OPEN->CLOSED happens by
\* forceClose only, CLOSED->HALF_OPEN never, and a call admitted earlier
\* that settles in OPEN or CLOSED moves the state along the table only.
C23_TransitionTable ==
  [][stats'.state # stats.state =>
       \/ /\ ManualStep
          /\ stats'.state = "OPEN" /\ forced'.kind = "open"
       \/ /\ ManualStep
          /\ stats' = reset /\ forced'.kind = "close"
       \/ /\ stats.state = "CLOSED" /\ stats'.state = "OPEN"
          /\ \E c \in Callers : FailsStep(c)
          /\ stats'.failures = stats.failures + 1
          /\ stats'.failures >= options.failureThreshold
       \/ /\ stats.state = "OPEN" /\ stats'.state = "HALF_OPEN"
          /\ \E c \in Callers : Starts(c) /\ AdmittedStep(c)
          /\ \/ stats.lastFailureTime = Null
             \/ now - stats.lastFailureTime >= options.resetTimeout
       \/ /\ stats.state = "HALF_OPEN" /\ stats' = reset
          /\ \E c \in Callers : SucceedsStep(c)
          /\ stats.successes + 1 >= options.successThreshold
       \/ /\ stats.state = "HALF_OPEN" /\ stats'.state = "OPEN"
          /\ \E c \in Callers : FailsStep(c)]_vars

\* a call admitted while CLOSED has succeeded after the circuit opened, and
\* the state is still OPEN
C23_Witness ==
  /\ stats.state = "OPEN"
  /\ forced = NotForced
  /\ \E c \in Callers :
       /\ SuccessIn(c, "OPEN")
       /\ calls[c].deadline < stats.lastFailureTime + options.timeout

\* C24: no timeout timer is pending except that of an execute call still at
\* its await: once a call has settled its timer has been cleared or has
\* fired, whichever way the call ended, and no timer outlives its call.
C24_NoTimerLeak ==
  /\ \A c \in Callers : calls[c].timer => calls[c].pc = "awaiting"
  /\ ~orphanTimers

\* C25: while HALF_OPEN, the calls admitted in this HALF_OPEN period that are
\* at their await at the same time number at most successThreshold.
C25_HalfOpenLimited ==
  stats.state = "HALF_OPEN" =>
    Cardinality(probing \cap InFlight) <= options.successThreshold

\* C26: while HALF_OPEN, the bookkeeping of a call that was not admitted in
\* the running HALF_OPEN period changes neither the state nor successes: its
\* success is not counted toward closing and its failure does not open the
\* circuit.
C26_OnlyProbesCount ==
  [][\A c \in Callers :
       (/\ stats.state = "HALF_OPEN"
        /\ c \notin probing
        /\ SucceedsStep(c) \/ FailsStep(c)) =>
         /\ stats'.state = "HALF_OPEN"
         /\ stats'.successes = stats.successes]_vars

\* C27: in every reachable state, whatever calls overlapped and whatever
\* forceOpen and forceClose did, a CLOSED breaker has successes = 0 and
\* failures < failureThreshold.
C27_ClosedCounters ==
  stats.state = "CLOSED" =>
    /\ stats.successes = 0
    /\ stats.failures < options.failureThreshold

\* CLOSED one failure short of the threshold: a call has just failed while
\* another is at its await
C27_Witness ==
  /\ stats.state = "CLOSED"
  /\ stats.failures > 0
  /\ stats.failures = options.failureThreshold - 1
  /\ InFlight # {}
  /\ \E c \in Callers : FailureIn(c, "CLOSED")

\* C28: in every reachable state an OPEN breaker has successes = 0, so that
\* the HALF_OPEN period that follows counts its successes from zero.
C28_OpenZero ==
  stats.state = "OPEN" => stats.successes = 0

\* C29: once the dependency has recovered for good (operations resolve before
\* their timeout, nobody calls forceOpen, callers keep calling, time
\* advances) the breaker comes to be CLOSED, and from then on it stays
\* CLOSED.
C29_RecoveryLiveness ==
  /\ recovered ~> (stats.state = "CLOSED")
  /\ [][(recovered /\ stats.state = "CLOSED") => stats'.state = "CLOSED"]_vars

\* the dependency has recovered while the circuit was open, its cooldown
\* still running, and the breaker has closed after successThreshold probes
C29_Witness ==
  /\ recovered
  /\ stats = reset
  /\ options.successThreshold = 2
  /\ \E c \in Callers : SuccessIn(c, "HALF_OPEN") /\ calls[c].pre.successes = 1

TypeOK ==
  /\ stats.state \in {"CLOSED", "OPEN", "HALF_OPEN"}
  /\ stats.failures \in Nat
  /\ stats.successes \in 0..options.successThreshold
  /\ stats.lastFailureTime \in {Null} \cup StartTime..MaxTime
  /\ now \in StartTime..MaxTime
  /\ orphanOps \in BOOLEAN /\ orphanTimers \in BOOLEAN
====
